---- MODULE Spec2Model ----
(***************************************************************************)
(* A model of the WAD lump indexer of wad-rs.                              *)
(*                                                                         *)
(*   index.rs      parse_tokens / parse_namespace / parse_map: the walk of *)
(*                 the token stream that builds the LumpCollection tree    *)
(*   lumps.rs      LumpCollection::add_lump / add_collection               *)
(*   tokenizer.rs  TokenIterator::new / next: directory entries to tokens  *)
(*                                                                         *)
(* A lump name is a sequence of symbols.  The marker suffixes "_START" and *)
(* "_END" are symbols of their own, so that ends_with and replace act on a *)
(* name as they do on the string: <<"X", "_START">> is "X_START" and       *)
(* <<"_END", "_END">> is "_END_END".                                       *)
(***************************************************************************)
EXTENDS Integers, Sequences, FiniteSets, TLC

VARIABLES
    tokens,          \* parse_tokens: the argument `tokens: Vec<LumpToken>`
    pos,             \* the peekable iterator: index of the token peek() gives
    stack,           \* the call stack: parse_tokens, then the open
                     \* parse_namespace calls, then (at most one) parse_map
    map_collection,  \* parse_tokens' local `map_collection`
    result,          \* what parse_tokens returned, once it has
    data_len,        \* tokenizer: data.len()
    entries,         \* tokenizer: the directory entries held in `data`
    header,          \* tokenizer: the Header given to TokenIterator::new
    directory_offset,\* TokenIterator.directory_offset
    directory_end,   \* TokenIterator.directory_end
    produced,        \* the items TokenIterator::next has yielded so far
    outcome,         \* the state of the TokenIterator
    head,            \* from_bytes: the first bytes of `data`, twelve at most
    wad,             \* from_bytes: how far it got, and the WadIndex fields
    lookups,         \* the WadIndex::get_lump calls made, with their answers
    earlier,         \* what an earlier parse_tokens call on the same tokens
                     \* returned, if there was one
    voices,          \* VoiceManager.voices
    returned,        \* what the note_on calls made so far returned
    events,          \* MidiEventScheduler.events
    event_index,     \* MidiEventScheduler.event_index
    current_tick,    \* Transport.current_tick
    handled,         \* the calls of the handler: the event and the tick
    yielded          \* what the MapIterator::next calls made so far returned

vars == <<tokens, pos, stack, map_collection, result,
          data_len, entries, header, directory_offset, directory_end,
          produced, outcome, head, wad, lookups, earlier,
          voices, returned, events, event_index, current_tick, handled,
          yielded>>

voiceVars == <<voices, returned>>
midiVars == <<events, event_index, current_tick, handled>>
synthVars == <<voiceVars, midiVars>>
facadeVars == <<head, wad, lookups, earlier, synthVars, yielded>>
indexVars == <<tokens, pos, stack, map_collection, result>>
tokenVars == <<data_len, entries, header, directory_offset, directory_end,
               produced, outcome, facadeVars>>

-----------------------------------------------------------------------------
(* Bounds of the model. *)

MaxTokens == 5
MaxEntries == 3
MaxLookups == 2
NumVoices == 2
MaxNoteOns == 4
MaxEvents == 3
MaxTick == 3

\* The names that the indexes looked up in are made of.
LookupNames == { <<"P">>, <<"SND">> }

-----------------------------------------------------------------------------
(* An Option is a sequence of length 0 or 1. *)

None == <<>>
Some(x) == <<x>>

-----------------------------------------------------------------------------
(* Names. *)

N(s) == <<s>>
Start(s) == <<s, "_START">>
End(s) == <<s, "_END">>

\* str::replace(pat, ""): every occurrence of the pattern is removed.
Replace(name, pat) == SelectSeq(name, LAMBDA sym : sym # pat)

\* str::ends_with
EndsWith(name, pat) == Len(name) > 0 /\ name[Len(name)] = pat

\* The `matches!` of parse_map: the names that continue a map run.
is_map_lump(name) ==
    name \in { N("THINGS"), N("LINEDEFS"), N("SIDEDEFS"), N("VERTEXES"),
               N("SECTORS"), N("SSECTORS"), N("SEGS"), N("NODES"),
               N("REJECT"), N("BLOCKMAP") }

\* The key parse_tokens files the map collection under.
MAPS == N("MAPS")

-----------------------------------------------------------------------------
(* LumpCollection. *)

EmptyMap == <<>>

\* LumpCollection::default()
EmptyCollection == [lumps |-> EmptyMap, collections |-> EmptyMap]

\* HashMap::insert: a later value replaces an earlier one under the key.
Insert(map, key, value) == (key :> value) @@ map

\* LumpCollection::add_lump: always Ok.
add_lump(coll, name, reference) ==
    [coll EXCEPT !.lumps = Insert(coll.lumps, name, reference)]

\* LumpCollection::add_collection fails iff the key is taken ...
add_collection_fails(coll, name) == name \in DOMAIN coll.collections

\* ... and inserts otherwise.
add_collection(coll, name, collection) ==
    [coll EXCEPT !.collections = Insert(coll.collections, name, collection)]

-----------------------------------------------------------------------------
(* Tokens. *)

Lump(name) == [kind |-> "Lump", name |-> name]
MarkerStart(name) == [kind |-> "MarkerStart", name |-> name]
MarkerEnd(name) == [kind |-> "MarkerEnd", name |-> name]
MapMarker(name) == [kind |-> "MapMarker", name |-> name]

\* The tokens the streams of Spec are made of.
Alphabet ==
    { Lump(N("SND")), Lump(N("THINGS")),
      MarkerStart(Start("X")), MarkerStart(Start("Y")),
      MarkerEnd(End("X")), MarkerEnd(End("Y")),
      MapMarker(N("E1M1")), MapMarker(N("E1M2")) }

SeqsUpTo(S, n) == UNION { [1..k -> S] : k \in 0..n }

\* Each lump token carries the DirectoryRef of its own directory entry: the
\* model names it by the entry's index.
WithRefs(stream) ==
    [i \in 1..Len(stream) |->
        [kind |-> stream[i].kind, name |-> stream[i].name,
         ref |-> IF stream[i].kind = "Lump" THEN i ELSE 0]]

-----------------------------------------------------------------------------
(* The call stack. *)

Frame(fn, namespace, key) ==
    [fn |-> fn, namespace |-> namespace, key |-> key, coll |-> EmptyCollection]

Top == stack[Len(stack)]
InFn(fn) == result.status = "running" /\ Top.fn = fn
AtEnd == pos > Len(tokens)
Peek == tokens[pos]
PeekIs(kind) == ~AtEnd /\ Peek.kind = kind

Running == [status |-> "running"]
Ok(index) == [status |-> "ok", index |-> index]
Err(kind, a, b) == [status |-> "err", kind |-> kind, expected |-> a, found |-> b]

\* As NamespaceKey, but the `_START` suffix is taken off the key too.
NamespaceKey_Stripped(name) == Replace(name, "_START")

\* The key a namespace is filed under in its parent: parse_tokens and
\* parse_namespace pass the marker's own `name` to add_collection.
NamespaceKey(name) == name

\* The name a namespace is opened with: `name.replace("_START", "")`.
NamespaceOf(name) == Replace(name, "_START")

\* `name.replace("_END", "")`
NamespaceEndOf(name) == Replace(name, "_END")

\* As TopAddLump, but the lump goes to parse_tokens' collection whatever
\* namespace is open.
TopAddLump_ToRoot(name, reference) ==
    [stack EXCEPT ![1].coll = add_lump(@, name, reference)]

\* The current LumpCollection takes a lump.
TopAddLump(name, reference) ==
    [stack EXCEPT ![Len(stack)].coll = add_lump(@, name, reference)]

\* A call of parse_namespace: its `iter.next()` takes the start marker.
CallNamespace ==
    /\ stack' = Append(stack, Frame("parse_namespace", NamespaceOf(Peek.name),
                                   NamespaceKey(Peek.name)))
    /\ pos' = pos + 1
    /\ UNCHANGED <<tokens, map_collection, result, tokenVars>>

\* parse_namespace returned Ok(namespace_map): the caller's add_collection,
\* then the caller's iter.next(), which takes the end marker if there is one.
ReturnNamespace ==
    LET callee == Top
        rest == SubSeq(stack, 1, Len(stack) - 1)
        caller == rest[Len(rest)]
    IN  IF add_collection_fails(caller.coll, callee.key)
        THEN /\ result' = Err("AlreadyExists", callee.key, callee.key)
             /\ UNCHANGED <<tokens, pos, stack, map_collection, tokenVars>>
        ELSE /\ stack' = [rest EXCEPT ![Len(rest)].coll =
                              add_collection(@, callee.key, callee.coll)]
             /\ pos' = IF AtEnd THEN pos ELSE pos + 1
             /\ UNCHANGED <<tokens, map_collection, result, tokenVars>>

-----------------------------------------------------------------------------
(* parse_tokens: one action for each arm of its loop. *)

\* As RootLump, but whether the lump is inserted is left open.
RootLump_Either ==
    /\ InFn("parse_tokens") /\ PeekIs("Lump")
    /\ stack' \in {TopAddLump(Peek.name, Peek.ref), stack}
    /\ pos' = pos + 1
    /\ UNCHANGED <<tokens, map_collection, result, tokenVars>>

RootLump ==
    /\ InFn("parse_tokens") /\ PeekIs("Lump")
    /\ stack' = TopAddLump(Peek.name, Peek.ref)
    /\ pos' = pos + 1
    /\ UNCHANGED <<tokens, map_collection, result, tokenVars>>

RootMarkerStart ==
    /\ InFn("parse_tokens") /\ PeekIs("MarkerStart")
    /\ CallNamespace

\* As RootMapMarker, but parse_map does not take the map marker.
RootMapMarker_NoNext ==
    /\ InFn("parse_tokens") /\ PeekIs("MapMarker")
    /\ stack' = Append(stack, Frame("parse_map", Peek.name, Peek.name))
    /\ pos' = pos
    /\ UNCHANGED <<tokens, map_collection, result, tokenVars>>

\* parse_map is entered: its `iter.next()` takes the map marker.
RootMapMarker ==
    /\ InFn("parse_tokens") /\ PeekIs("MapMarker")
    /\ stack' = Append(stack, Frame("parse_map", Peek.name, Peek.name))
    /\ pos' = pos + 1
    /\ UNCHANGED <<tokens, map_collection, result, tokenVars>>

\* The `_ => {}` arm: an end marker at the root is stepped over.
RootOther ==
    /\ InFn("parse_tokens") /\ PeekIs("MarkerEnd")
    /\ pos' = pos + 1
    /\ UNCHANGED <<tokens, stack, map_collection, result, tokenVars>>

\* The loop is over: the maps are filed under MAPS and the tree returned.
RootFinish ==
    /\ InFn("parse_tokens") /\ AtEnd
    /\ result' = IF add_collection_fails(Top.coll, MAPS)
                 THEN Err("AlreadyExists", MAPS, MAPS)
                 ELSE Ok(add_collection(Top.coll, MAPS, map_collection))
    /\ UNCHANGED <<tokens, pos, stack, map_collection, tokenVars>>

-----------------------------------------------------------------------------
(* parse_namespace *)

NsLump ==
    /\ InFn("parse_namespace") /\ PeekIs("Lump")
    /\ stack' = TopAddLump(Peek.name, Peek.ref)
    /\ pos' = pos + 1
    /\ UNCHANGED <<tokens, map_collection, result, tokenVars>>

NsMarkerStart ==
    /\ InFn("parse_namespace") /\ PeekIs("MarkerStart")
    /\ CallNamespace

\* As NsMarkerEnd, but a matching end marker does not end the loop.
NsMarkerEnd_NoBreak ==
    /\ InFn("parse_namespace") /\ PeekIs("MarkerEnd")
    /\ IF Top.namespace # NamespaceEndOf(Peek.name)
       THEN /\ result' = Err("MismatchedEndMarker", Top.namespace,
                             NamespaceEndOf(Peek.name))
            /\ UNCHANGED <<tokens, pos, stack, map_collection, tokenVars>>
       ELSE /\ pos' = pos + 1
            /\ UNCHANGED <<tokens, stack, map_collection, result, tokenVars>>

\* The end marker: a mismatch is an error, a match ends the loop.
NsMarkerEnd ==
    /\ InFn("parse_namespace") /\ PeekIs("MarkerEnd")
    /\ IF Top.namespace # NamespaceEndOf(Peek.name)
       THEN /\ result' = Err("MismatchedEndMarker", Top.namespace,
                             NamespaceEndOf(Peek.name))
            /\ UNCHANGED <<tokens, pos, stack, map_collection, tokenVars>>
       ELSE ReturnNamespace

\* The `_ => {}` arm: a map marker inside a namespace is stepped over.
NsOther ==
    /\ InFn("parse_namespace") /\ PeekIs("MapMarker")
    /\ pos' = pos + 1
    /\ UNCHANGED <<tokens, stack, map_collection, result, tokenVars>>

\* peek() gives None: the loop ends and the namespace is returned.
NsEndOfStream ==
    /\ InFn("parse_namespace") /\ AtEnd
    /\ ReturnNamespace

-----------------------------------------------------------------------------
(* parse_map *)

\* As MapLump, but the lump is filed in parse_tokens' collection as well.
MapLump_AlsoRoot ==
    /\ InFn("parse_map") /\ PeekIs("Lump") /\ is_map_lump(Peek.name)
    /\ stack' = [TopAddLump(Peek.name, Peek.ref) EXCEPT
                    ![1].coll = add_lump(@, Peek.name, Peek.ref)]
    /\ pos' = pos + 1
    /\ UNCHANGED <<tokens, map_collection, result, tokenVars>>

MapLump ==
    /\ InFn("parse_map") /\ PeekIs("Lump") /\ is_map_lump(Peek.name)
    /\ stack' = TopAddLump(Peek.name, Peek.ref)
    /\ pos' = pos + 1
    /\ UNCHANGED <<tokens, map_collection, result, tokenVars>>

\* Every `break` of parse_map and the end of the stream: the map is returned
\* and parse_tokens files it; the token that ended the run is not taken.
MapReturn ==
    /\ InFn("parse_map")
    /\ IF AtEnd THEN TRUE ELSE ~(Peek.kind = "Lump" /\ is_map_lump(Peek.name))
    /\ IF add_collection_fails(map_collection, Top.key)
       THEN /\ result' = Err("AlreadyExists", Top.key, Top.key)
            /\ UNCHANGED <<tokens, pos, stack, map_collection, tokenVars>>
       ELSE /\ map_collection' = add_collection(map_collection, Top.key, Top.coll)
            /\ stack' = SubSeq(stack, 1, Len(stack) - 1)
            /\ UNCHANGED <<tokens, pos, result, tokenVars>>

-----------------------------------------------------------------------------
(* The indexer on every token stream of at most MaxTokens tokens. *)

IndexStart(stream) ==
    /\ tokens = WithRefs(stream)
    /\ pos = 1
    /\ stack = <<Frame("parse_tokens", <<>>, <<>>)>>
    /\ map_collection = EmptyCollection
    /\ result = Running

\* No WadIndex::from_bytes call is under way.
FacadeIdle ==
    /\ head = <<>>
    /\ wad = [status |-> "idle"]
    /\ lookups = <<>>
    /\ earlier = None
    /\ yielded = <<>>

\* No VoiceManager has been made.
VoicesIdle ==
    /\ voices = <<>>
    /\ returned = <<>>

\* No MidiEventScheduler has been made.
MidiIdle ==
    /\ events = <<>>
    /\ event_index = 0
    /\ current_tick = 0
    /\ handled = <<>>

SynthIdle == VoicesIdle /\ MidiIdle

TokenizerIdle ==
    /\ data_len = 0
    /\ entries = <<>>
    /\ header = [identification |-> "IWAD", num_lumps |-> 0,
                 info_table_offset |-> 0]
    /\ directory_offset = 0
    /\ directory_end = 0
    /\ produced = <<>>
    /\ outcome = "idle"

Init ==
    /\ \E stream \in SeqsUpTo(Alphabet, MaxTokens) : IndexStart(stream)
    /\ TokenizerIdle
    /\ FacadeIdle
    /\ SynthIdle

Next ==
    \/ RootLump
    \/ RootMarkerStart
    \/ RootMapMarker
    \/ RootOther
    \/ RootFinish
    \/ NsLump
    \/ NsMarkerStart
    \/ NsMarkerEnd
    \/ NsOther
    \/ NsEndOfStream
    \/ MapLump
    \/ MapReturn

Spec == Init /\ [][Next]_vars

\* parse_tokens is one sequential call: while a step of it can be taken, one
\* is taken.
SpecLive == Spec /\ WF_vars(Next)

\* parse_tokens has returned and is called again with the same tokens: the
\* call starts from fresh collections and a fresh iterator.
ParseAgain ==
    /\ result.status # "running"
    /\ earlier = None
    /\ earlier' = Some(result)
    /\ pos' = 1
    /\ stack' = <<Frame("parse_tokens", <<>>, <<>>)>>
    /\ map_collection' = EmptyCollection
    /\ result' = Running
    /\ UNCHANGED <<tokens, data_len, entries, header, directory_offset,
                   directory_end, produced, outcome, head, wad, lookups,
                   synthVars, yielded>>

NextTwice ==
    \/ RootLump
    \/ RootMarkerStart
    \/ RootMapMarker
    \/ RootOther
    \/ RootFinish
    \/ NsLump
    \/ NsMarkerStart
    \/ NsMarkerEnd
    \/ NsOther
    \/ NsEndOfStream
    \/ MapLump
    \/ MapReturn
    \/ ParseAgain

SpecTwice == Init /\ [][NextTwice]_vars

-----------------------------------------------------------------------------
(* The indexer on streams whose marker names are bare suffixes or repeat a  *)
(* suffix: `_START`, `_END`, `_END_END`.                                    *)

SuffixAlphabet ==
    { Lump(N("SND")), Lump(N("THINGS")),
      MarkerStart(<<"_START">>),
      MarkerEnd(<<"_END">>), MarkerEnd(<<"_END", "_END">>), MarkerEnd(End("X")),
      MapMarker(N("E1M1")) }

InitSuffix ==
    /\ \E stream \in SeqsUpTo(SuffixAlphabet, MaxTokens) : IndexStart(stream)
    /\ TokenizerIdle
    /\ FacadeIdle
    /\ SynthIdle

SpecSuffix == InitSuffix /\ [][Next]_vars

-----------------------------------------------------------------------------
(* The indexer on streams with the lumps of a Hexen map: BEHAVIOR follows   *)
(* the lumps that parse_map names.                                          *)

HexenAlphabet ==
    { Lump(N("SND")), Lump(N("THINGS")), Lump(N("BEHAVIOR")),
      MarkerStart(Start("X")), MarkerEnd(End("X")),
      MapMarker(N("E1M1")), MapMarker(N("MAP01")) }

InitHexen ==
    /\ \E stream \in SeqsUpTo(HexenAlphabet, MaxTokens) : IndexStart(stream)
    /\ TokenizerIdle
    /\ FacadeIdle
    /\ SynthIdle

SpecHexen == InitHexen /\ [][Next]_vars

\* Streams that use the name of the reserved namespace for their own
\* content: a namespace MAPS_START ... MAPS_END and a lump MAPS, beside
\* maps of their own.
ReservedAlphabet ==
    { Lump(MAPS), Lump(N("THINGS")),
      MarkerStart(Start("MAPS")), MarkerEnd(End("MAPS")),
      MapMarker(N("E1M1")), MapMarker(N("E1M2")) }

InitReserved ==
    /\ \E stream \in SeqsUpTo(ReservedAlphabet, MaxTokens) : IndexStart(stream)
    /\ TokenizerIdle
    /\ FacadeIdle
    /\ SynthIdle

SpecReserved == InitReserved /\ [][Next]_vars

-----------------------------------------------------------------------------
(* tokenizer.rs: TokenIterator over the directory of a buffer.              *)
(*                                                                          *)
(* The buffer is a 12-byte header, PayloadLen bytes of lumps and then the   *)
(* directory; an entry is its offset, its length and its name.              *)

LUMP_ENTRY_LENGTH == 16
HeaderLen == 12

\* The lump bytes between the header and the directory of the model's buffers.
PayloadLen == 8

\* is_map_marker: MAP and two digits, or E, digit, M, digit.  The model's
\* names of these shapes are single symbols.
is_map_marker(name) ==
    Len(name) = 1 /\ name[1] \in {"E1M1", "E1M2", "MAP01"}

\* LumpToken::is_start_marker
is_start_marker(name) == EndsWith(name, "_START")

\* LumpToken::is_end_marker
is_end_marker(name) == EndsWith(name, "_END")

\* `&self.data[start..end]` panics unless start <= end <= data.len().
SliceInBounds(start, end, len) == start <= end /\ end <= len

\* The sizes of the code are machine words and the fields of the directory
\* and of the header are signed and narrower.  The model's word has
\* UsizeModulus values; the fields of the model's buffers stay far below it,
\* as 32 bits stay below 64.
UsizeModulus == 65536

\* `v as usize` of an i32: a negative value is sign-extended, and so becomes
\* a size near the top of the word.
as_usize(v) == IF v < 0 THEN UsizeModulus + v ELSE v

\* A sum or product of sizes does not fit the word ...
Overflows(v) == v >= UsizeModulus

\* ... and is cut to the word by a build without overflow checks.
Wrapped(v) == v % UsizeModulus

\* `pos` and `pos + len` of an entry.
SliceStart(e) == as_usize(e.offset)
SliceSum(e) == as_usize(e.offset) + as_usize(e.length)
SliceEnd(e) == Wrapped(SliceSum(e))

\* `&self.data[pos..pos + len]` gives a slice: with overflow checks the sum
\* must fit the word, and the range must lie in the buffer.
Sliceable(e, overflow_checks) ==
    /\ ~(overflow_checks /\ Overflows(SliceSum(e)))
    /\ SliceInBounds(SliceStart(e), SliceEnd(e), data_len)

\* `directory_offset + (num_lumps as usize * LUMP_ENTRY_LENGTH)`
DirectoryProduct(h) == as_usize(h.num_lumps) * LUMP_ENTRY_LENGTH
DirectorySum(h) ==
    as_usize(h.info_table_offset) + Wrapped(DirectoryProduct(h))
DirectoryOverflows(h) ==
    Overflows(DirectoryProduct(h)) \/ Overflows(DirectorySum(h))

\* A reference that keeps the length where the end belongs.
LumpRef_Length(start, end, name) ==
    [start |-> start, end |-> end - start, name |-> name]

\* LumpRef::new(data, name): the slice is named by its range.
LumpRef(start, end, name) == [start |-> start, end |-> end, name |-> name]

ItemOk(token) == [ok |-> TRUE, token |-> token]
ItemErr(error) == [ok |-> FALSE, error |-> error]

\* The directory entry that starts at this offset of the buffer.
EntryAt(offset) ==
    entries[((offset - header.info_table_offset) \div LUMP_ENTRY_LENGTH) + 1]

\* The name field of an entry is the sequence of its symbols as the buffer
\* holds them: letters in the case they were written in, and NUL for a zero
\* byte.
NUL == "NUL"

\* A name followed by the zero bytes that fill its field.
Field(name, pad) == name \o [i \in 1..pad |-> NUL]

\* str::trim_end_matches('\0'): the zero bytes at the end are dropped, and
\* nothing else is changed.
RECURSIVE trim_end_matches(_)
trim_end_matches(field) ==
    IF field # <<>> /\ field[Len(field)] = NUL
    THEN trim_end_matches(SubSeq(field, 1, Len(field) - 1))
    ELSE field

\* Classify with an unrecognised marker passed on as a lump instead of
\* failing.
Classify_Lenient(e) ==
    LET name == trim_end_matches(e.name)
    IN  IF e.length = 0 /\ is_map_marker(name) THEN ItemOk(MapMarker(name))
        ELSE IF e.length = 0 /\ is_start_marker(name)
        THEN ItemOk(MarkerStart(name))
        ELSE IF e.length = 0 /\ is_end_marker(name)
        THEN ItemOk(MarkerEnd(name))
        ELSE ItemOk([kind |-> "Lump", name |-> name,
                     ref |-> LumpRef(SliceStart(e), SliceEnd(e), name)])

\* The item next() makes of an entry whose slice could be taken: the name
\* is the field without its trailing zero bytes.
Classify(e) ==
    LET name == trim_end_matches(e.name)
    IN  IF e.length = 0
        THEN IF is_map_marker(name) THEN ItemOk(MapMarker(name))
             ELSE IF is_start_marker(name) THEN ItemOk(MarkerStart(name))
             ELSE IF is_end_marker(name) THEN ItemOk(MarkerEnd(name))
             ELSE ItemErr("Unknown marker type")
        ELSE ItemOk([kind |-> "Lump", name |-> name,
                     ref |-> LumpRef(SliceStart(e), SliceEnd(e), name)])

\* TokenIterator::new with the comparison `<=`: a buffer that ends with its
\* directory is refused.
TokenNew_Strict ==
    /\ outcome = "new"
    /\ \E overflow_checks \in BOOLEAN :
          LET offset == as_usize(header.info_table_offset)
              end == Wrapped(DirectorySum(header))
          IN  IF overflow_checks /\ DirectoryOverflows(header)
              THEN /\ outcome' = "panicked"
                   /\ UNCHANGED <<directory_offset, directory_end>>
              ELSE IF data_len <= end
              THEN /\ outcome' = "BufferTooSmall"
                   /\ UNCHANGED <<directory_offset, directory_end>>
              ELSE /\ outcome' = "iterating"
                   /\ directory_offset' = offset
                   /\ directory_end' = end
    /\ UNCHANGED <<data_len, entries, header, produced, indexVars, facadeVars>>

\* TokenIterator::new
TokenNew ==
    /\ outcome = "new"
    /\ \E overflow_checks \in BOOLEAN :
          LET offset == as_usize(header.info_table_offset)
              end == Wrapped(DirectorySum(header))
          IN  IF overflow_checks /\ DirectoryOverflows(header)
              THEN /\ outcome' = "panicked"
                   /\ UNCHANGED <<directory_offset, directory_end>>
              ELSE IF data_len < end
              THEN /\ outcome' = "BufferTooSmall"
                   /\ UNCHANGED <<directory_offset, directory_end>>
              ELSE /\ outcome' = "iterating"
                   /\ directory_offset' = offset
                   /\ directory_end' = end
    /\ UNCHANGED <<data_len, entries, header, produced, indexVars, facadeVars>>

\* TokenIterator::next with a stride of two entries.
TokenNext_Stride ==
    /\ outcome \in {"iterating", "exhausted"}
    /\ directory_offset < directory_end
    /\ directory_offset' = directory_offset + 2 * LUMP_ENTRY_LENGTH
    /\ \E overflow_checks \in BOOLEAN :
          LET e == EntryAt(directory_offset)
          IN  IF Sliceable(e, overflow_checks)
              THEN /\ produced' = Append(produced, Classify(e))
                   /\ UNCHANGED outcome
              ELSE /\ outcome' = "panicked"
                   /\ UNCHANGED produced
    /\ UNCHANGED <<data_len, entries, header, directory_end, indexVars, facadeVars>>

\* TokenIterator::next on an entry: the slice of the lump is taken before
\* the entry is classified.
TokenNext ==
    /\ outcome \in {"iterating", "exhausted"}
    /\ directory_offset < directory_end
    /\ directory_offset' = directory_offset + LUMP_ENTRY_LENGTH
    /\ \E overflow_checks \in BOOLEAN :
          LET e == EntryAt(directory_offset)
          IN  IF Sliceable(e, overflow_checks)
              THEN /\ produced' = Append(produced, Classify(e))
                   /\ UNCHANGED outcome
              ELSE /\ outcome' = "panicked"
                   /\ UNCHANGED produced
    /\ UNCHANGED <<data_len, entries, header, directory_end, indexVars, facadeVars>>

\* TokenIterator::next past the last entry: None, on this call and on every
\* later one.
TokenNextNone ==
    /\ outcome \in {"iterating", "exhausted"}
    /\ directory_offset >= directory_end
    /\ outcome' = "exhausted"
    /\ UNCHANGED <<data_len, entries, header, directory_offset, directory_end,
                   produced, indexVars, facadeVars>>

\* The directory entries of the model's buffers.
EntryNames ==
    { Field(N("SND"), 2), Field(Start("X"), 1), Field(End("X"), 1),
      Field(N("E1M1"), 1), Field(N("JUNK"), 1) }
EntryOffsets == { HeaderLen, HeaderLen + 4 }
EntryLengths == { 0, 4, 100 }
Entries == [offset : EntryOffsets, length : EntryLengths, name : EntryNames]

IndexerIdle ==
    /\ tokens = <<>>
    /\ pos = 1
    /\ stack = <<>>
    /\ map_collection = EmptyCollection
    /\ result = [status |-> "idle"]

\* A buffer that holds the directory its header declares, or lacks its last
\* byte.
InitTokenizer ==
    /\ IndexerIdle
    /\ FacadeIdle
    /\ SynthIdle
    /\ \E n \in 0..MaxEntries :
          /\ entries \in [1..n -> Entries]
          /\ header = [identification |-> "IWAD", num_lumps |-> n,
                       info_table_offset |-> HeaderLen + PayloadLen]
          /\ data_len \in { HeaderLen + PayloadLen + n * LUMP_ENTRY_LENGTH,
                            HeaderLen + PayloadLen + n * LUMP_ENTRY_LENGTH - 1 }
    /\ directory_offset = 0
    /\ directory_end = 0
    /\ produced = <<>>
    /\ outcome = "new"

NextTokenizer ==
    \/ TokenNew
    \/ TokenNext
    \/ TokenNextNone

SpecTokenizer == InitTokenizer /\ [][NextTokenizer]_vars

\* Directories whose name fields are written in either case, with zero
\* bytes at the end of the field or in the middle of it, or with none.
NameFields ==
    { Field(Start("S"), 1), <<"s", "_start", NUL>>,
      Field(N("SND"), 2), <<"snd", NUL, NUL>>, <<"SND", NUL, "JUNK">>,
      Field(N("E1M1"), 1), <<"e1m1", NUL>>, N("BEHAVIOR") }
NameEntries == [offset : { HeaderLen }, length : { 0, 4 }, name : NameFields]

InitNames ==
    /\ IndexerIdle
    /\ FacadeIdle
    /\ SynthIdle
    /\ \E n \in 0..MaxEntries :
          /\ entries \in [1..n -> NameEntries]
          /\ header = [identification |-> "IWAD", num_lumps |-> n,
                       info_table_offset |-> HeaderLen + PayloadLen]
          /\ data_len = HeaderLen + PayloadLen + n * LUMP_ENTRY_LENGTH
    /\ directory_offset = 0
    /\ directory_end = 0
    /\ produced = <<>>
    /\ outcome = "new"

SpecNames == InitNames /\ [][NextTokenizer]_vars

-----------------------------------------------------------------------------
(* directory.rs: DirectoryParser and DirectoryIterator, the reader of the   *)
(* directory that yields the DirectoryRef values a LumpCollection stores.   *)
(* It shares the buffer, the header and the entries with the tokenizer:     *)
(* directory_offset is its `current`, directory_end its `end`, and produced *)
(* the references it has yielded.                                           *)

DIRECTORY_ENTRY_SIZE == 16

\* DirectoryRef::new(start, end, name_offset)
DirectoryRef(start, end, name_offset) ==
    [start |-> start, end |-> end, name_offset |-> name_offset]

\* DirectoryParser::new followed by iter(): the bounds of the directory, or
\* the error for a buffer that ends before the directory does.
DirectoryNew ==
    /\ outcome = "new"
    /\ \E overflow_checks \in BOOLEAN :
          LET start == as_usize(header.info_table_offset)
              end == Wrapped(DirectorySum(header))
          IN  IF overflow_checks /\ DirectoryOverflows(header)
              THEN /\ outcome' = "panicked"
                   /\ UNCHANGED <<directory_offset, directory_end>>
              ELSE IF end > data_len
              THEN /\ outcome' = "DataTooSmall"
                   /\ UNCHANGED <<directory_offset, directory_end>>
              ELSE /\ outcome' = "directory"
                   /\ directory_offset' = start
                   /\ directory_end' = end
    /\ UNCHANGED <<data_len, entries, header, produced, indexVars, facadeVars>>

\* DirectoryIterator::next on an entry: `self.current` moves on, and the
\* reference is made of `pos` and `pos + len` as they are, with no look at
\* the buffer.
DirectoryNext ==
    /\ outcome = "directory"
    /\ directory_offset < directory_end
    /\ directory_offset' = directory_offset + DIRECTORY_ENTRY_SIZE
    /\ \E overflow_checks \in BOOLEAN :
          LET e == EntryAt(directory_offset)
          IN  IF overflow_checks /\ Overflows(SliceSum(e))
              THEN /\ outcome' = "panicked"
                   /\ UNCHANGED produced
              ELSE /\ produced' =
                        Append(produced,
                               DirectoryRef(SliceStart(e), SliceEnd(e),
                                            directory_offset + 8))
                   /\ UNCHANGED outcome
    /\ UNCHANGED <<data_len, entries, header, directory_end, indexVars,
                   facadeVars>>

\* DirectoryIterator::next past the last entry: None.
DirectoryNextNone ==
    /\ outcome = "directory"
    /\ directory_offset >= directory_end
    /\ outcome' = "directory_exhausted"
    /\ UNCHANGED <<data_len, entries, header, directory_offset, directory_end,
                   produced, indexVars, facadeVars>>

\* Directories whose offsets and lengths are signed: in the buffer, before
\* its first byte, and lengths that run backwards.
SignedOffsets == { HeaderLen, HeaderLen + 4, -4 }
SignedLengths == { 0, 4, -4 }
SignedNames == { Field(N("SND"), 2), Field(Start("S"), 1) }
SignedEntries ==
    [offset : SignedOffsets, length : SignedLengths, name : SignedNames]

InitSigned ==
    /\ IndexerIdle
    /\ FacadeIdle
    /\ SynthIdle
    /\ \E n \in 0..MaxEntries :
          /\ entries \in [1..n -> SignedEntries]
          /\ header = [identification |-> "IWAD", num_lumps |-> n,
                       info_table_offset |-> HeaderLen + PayloadLen]
          /\ data_len = HeaderLen + PayloadLen + n * LUMP_ENTRY_LENGTH
    /\ directory_offset = 0
    /\ directory_end = 0
    /\ produced = <<>>
    /\ outcome = "new"

\* Either reader is run over the buffer.
NextSigned ==
    \/ TokenNew
    \/ TokenNext
    \/ TokenNextNone
    \/ DirectoryNew
    \/ DirectoryNext
    \/ DirectoryNextNone

SpecSigned == InitSigned /\ [][NextSigned]_vars

-----------------------------------------------------------------------------
(* map.rs: MapIterator over a TokenIterator.                                *)

\* The lump names of the `match lump_name` of MapIterator::next: the fields
\* of a Map.
is_map_field(name) ==
    name \in { N("THINGS"), N("LINEDEFS"), N("SIDEDEFS"), N("VERTEXES"),
               N("SECTORS"), N("SEGS"), N("SSECTORS"), N("NODES"),
               N("REJECT"), N("BLOCKMAP"), N("BEHAVIOR") }

\* Map::new(name): no field is set.
MapNew(name) == [name |-> name, lumps |-> EmptyMap]

\* What a loop over the token iterator leaves behind: where the iterator
\* stands, the items it has yielded, the map, and how the loop ended.
LoopEnd(offset, items, map, how) ==
    [offset |-> offset, items |-> items, map |-> map, how |-> how]

\* The `while let Some(result) = self.tokens.next()` of MapIterator::next,
\* with the token iterator at `offset`: every round takes a token from the
\* iterator, the round that leaves the loop too.
RECURSIVE MapLoop(_, _, _, _)
MapLoop(offset, items, map, overflow_checks) ==
    IF offset >= directory_end
    THEN LoopEnd(offset, items, map, "none")
    ELSE LET e == EntryAt(offset)
             after == offset + LUMP_ENTRY_LENGTH
         IN  IF ~Sliceable(e, overflow_checks)
             THEN LoopEnd(after, items, map, "panic")
             ELSE LET item == Classify(e)
                      taken == Append(items, item)
                  IN  IF ~item.ok
                      THEN LoopEnd(after, taken, map, "panic")
                      ELSE IF item.token.kind = "Lump"
                              /\ is_map_field(item.token.name)
                      THEN MapLoop(after, taken,
                                   [map EXCEPT !.lumps =
                                       Insert(@, item.token.name,
                                              item.token.ref)],
                                   overflow_checks)
                      ELSE LoopEnd(after, taken, map, "break")

\* MapIterator::next
MapNext ==
    /\ outcome \in {"iterating", "exhausted"}
    /\ Len(yielded) <= Len(entries)
    /\ IF directory_offset >= directory_end
       THEN /\ yielded' = Append(yielded, None)
            /\ outcome' = "exhausted"
            /\ UNCHANGED <<directory_offset, produced>>
       ELSE \E overflow_checks \in BOOLEAN :
            LET e == EntryAt(directory_offset)
                after == directory_offset + LUMP_ENTRY_LENGTH
            IN  IF ~Sliceable(e, overflow_checks)
                THEN /\ outcome' = "panicked"
                     /\ directory_offset' = after
                     /\ UNCHANGED <<yielded, produced>>
                ELSE LET first == Classify(e)
                     IN  IF first.ok /\ first.token.kind = "MapMarker"
                         THEN LET run == MapLoop(after, <<first>>,
                                                 MapNew(first.token.name),
                                                 overflow_checks)
                              IN  /\ directory_offset' = run.offset
                                  /\ produced' = produced \o run.items
                                  /\ outcome' =
                                        CASE run.how = "panic" -> "panicked"
                                          [] run.how = "none" -> "exhausted"
                                          [] OTHER -> outcome
                                  /\ yielded' =
                                        IF run.how = "panic" THEN yielded
                                        ELSE Append(yielded, Some(run.map))
                         ELSE /\ directory_offset' = after
                              /\ produced' = Append(produced, first)
                              /\ yielded' = Append(yielded, None)
                              /\ UNCHANGED outcome
    /\ UNCHANGED <<data_len, entries, header, directory_end, indexVars,
                   head, wad, lookups, earlier, synthVars>>

\* Directories of map markers, map lumps and other lumps, all in bounds.
MapEntryNames ==
    { Field(N("E1M1"), 1), Field(N("E1M2"), 1), Field(N("THINGS"), 1),
      N("BEHAVIOR"), Field(N("SND"), 2) }
MapEntries ==
    [offset : EntryOffsets, length : { 0, 4 }, name : MapEntryNames]

InitMaps ==
    /\ IndexerIdle
    /\ FacadeIdle
    /\ SynthIdle
    /\ \E n \in 0..MaxEntries :
          /\ entries \in [1..n -> MapEntries]
          /\ header = [identification |-> "IWAD", num_lumps |-> n,
                       info_table_offset |-> HeaderLen + PayloadLen]
          /\ data_len = HeaderLen + PayloadLen + n * LUMP_ENTRY_LENGTH
    /\ directory_offset = 0
    /\ directory_end = 0
    /\ produced = <<>>
    /\ outcome = "new"

NextMaps ==
    \/ TokenNew
    \/ MapNext

SpecMaps == InitMaps /\ [][NextMaps]_vars

-----------------------------------------------------------------------------
(* header.rs and the head of WadIndex::from_bytes.                          *)
(*                                                                          *)
(* The first four bytes of a buffer are characters, the next eight are      *)
(* numbers 0..255.                                                          *)

\* i32::from_be_bytes, the bytes taken in the opposite order.
i32_from_be_bytes(b) ==
    LET top == IF b[1] >= 128 THEN b[1] - 256 ELSE b[1]
    IN  b[4] + 256 * b[3] + 65536 * b[2] + 16777216 * top

\* i32::from_le_bytes: the two's-complement value of four bytes, lowest first.
i32_from_le_bytes(b) ==
    LET top == IF b[4] >= 128 THEN b[4] - 256 ELSE b[4]
    IN  b[1] + 256 * b[2] + 65536 * b[3] + 16777216 * top

\* MagicString::try_from
MagicString(b) ==
    IF b = <<"I", "W", "A", "D">> THEN Some("IWAD")
    ELSE IF b = <<"P", "W", "A", "D">> THEN Some("PWAD")
    ELSE None

\* Header::try_from of twelve bytes, once the magic is known.
HeaderOf(id, b) ==
    [identification |-> id,
     num_lumps |-> i32_from_le_bytes(SubSeq(b, 5, 8)),
     info_table_offset |-> i32_from_le_bytes(SubSeq(b, 9, 12))]

\* WadIndex::from_bytes up to `let file_type = header.identification`.
FromBytesHeader ==
    /\ wad.status = "new"
    /\ IF data_len < HeaderLen
       THEN /\ wad' = [status |-> "err", error |-> "BufferTooSmall"]
            /\ UNCHANGED header
       ELSE LET id == MagicString(SubSeq(head, 1, 4))
            IN  IF id = None
                THEN /\ wad' = [status |-> "err", error |-> "InvalidMagic"]
                     /\ UNCHANGED header
                ELSE /\ header' = HeaderOf(id[1], head)
                     /\ wad' = [status |-> "header", file_type |-> id[1]]
    /\ UNCHANGED <<data_len, entries, directory_offset, directory_end,
                   produced, outcome, head, lookups, earlier, synthVars,
                   yielded, indexVars>>

\* The buffers of the header model.
Magics ==
    { <<"I", "W", "A", "D">>, <<"P", "W", "A", "D">>,
      <<"X", "Y", "Z", "W">>, <<"I", "W", "A", "X">> }
CountBytes == [1..4 -> {0, 2, 255}]
OffsetBytes == [1..4 -> {0, 12, 128}]
BufferLengths == {0, 4, 11, 12, 44}

Min(a, b) == IF a < b THEN a ELSE b

InitHeader ==
    /\ IndexerIdle
    /\ data_len \in BufferLengths
    /\ \E m \in Magics, c \in CountBytes, o \in OffsetBytes :
          head = SubSeq(m \o c \o o, 1, Min(data_len, HeaderLen))
    /\ wad = [status |-> "new"]
    /\ lookups = <<>>
    /\ earlier = None
    /\ yielded = <<>>
    /\ SynthIdle
    /\ entries = <<>>
    /\ header = [identification |-> "IWAD", num_lumps |-> 0,
                 info_table_offset |-> 0]
    /\ directory_offset = 0
    /\ directory_end = 0
    /\ produced = <<>>
    /\ outcome = "idle"

NextHeader == FromBytesHeader

SpecHeader == InitHeader /\ [][NextHeader]_vars

-----------------------------------------------------------------------------
(* WadIndex::from_bytes as a whole: the header, the token iterator, and the *)
(* indexing of the tokens it yields.  index_tokens, which from_bytes calls  *)
(* between the two, is the build of the specification: it draws the tokens  *)
(* from the iterator, stops at the first failure, and indexes the tokens    *)
(* with parse_tokens.                                                       *)

\* No item the iterator has yielded is an error.
NoErrItem == \A i \in 1..Len(produced) : produced[i].ok

\* `TokenIterator::new(header, &data)?` in from_bytes
BuildTokenNew ==
    /\ wad.status = "header"
    /\ TokenNew

\* index_tokens draws the next token.
BuildTokenNext ==
    /\ wad.status = "header"
    /\ NoErrItem
    /\ TokenNext

\* index_tokens is told that the iterator has no more tokens.
BuildTokenNextNone ==
    /\ wad.status = "header"
    /\ NoErrItem
    /\ TokenNextNone

\* index_tokens hands the tokens to the indexer.
IndexTokens ==
    /\ wad.status = "header"
    /\ outcome = "exhausted"
    /\ NoErrItem
    /\ result.status = "idle"
    /\ tokens' = [i \in 1..Len(produced) |-> produced[i].token]
    /\ pos' = 1
    /\ stack' = <<Frame("parse_tokens", <<>>, <<>>)>>
    /\ map_collection' = EmptyCollection
    /\ result' = Running
    /\ UNCHANGED tokenVars

\* The four bytes of a non-negative number below 65536, lowest first.
LE32(v) == <<v % 256, (v \div 256) % 256, 0, 0>>

\* The directory entries of the buffers that are built: all lie inside the
\* lump bytes.
BuildNames ==
    { Field(N("SND"), 2), Field(N("THINGS"), 1), Field(Start("X"), 1),
      Field(End("X"), 1), Field(End("Y"), 1), Field(N("E1M1"), 1),
      Field(N("JUNK"), 1), <<"snd", NUL, NUL>>, <<"X", NUL, "_START">> }
BuildLengths == { 0, 4 }
BuildEntries ==
    [offset : EntryOffsets, length : BuildLengths, name : BuildNames]

\* An IWAD that ends with the directory its header declares.
InitBuild ==
    /\ IndexerIdle
    /\ \E n \in 0..MaxEntries :
          /\ entries \in [1..n -> BuildEntries]
          /\ head = <<"I", "W", "A", "D">> \o LE32(n)
                       \o LE32(HeaderLen + PayloadLen)
          /\ data_len = HeaderLen + PayloadLen + n * LUMP_ENTRY_LENGTH
    /\ wad = [status |-> "new"]
    /\ lookups = <<>>
    /\ earlier = None
    /\ yielded = <<>>
    /\ SynthIdle
    /\ header = [identification |-> "IWAD", num_lumps |-> 0,
                 info_table_offset |-> 0]
    /\ directory_offset = 0
    /\ directory_end = 0
    /\ produced = <<>>
    /\ outcome = "new"

NextBuild ==
    \/ FromBytesHeader
    \/ BuildTokenNew
    \/ BuildTokenNext
    \/ BuildTokenNextNone
    \/ IndexTokens
    \/ RootLump
    \/ RootMarkerStart
    \/ RootMapMarker
    \/ RootOther
    \/ RootFinish
    \/ NsLump
    \/ NsMarkerStart
    \/ NsMarkerEnd
    \/ NsOther
    \/ NsEndOfStream
    \/ MapLump
    \/ MapReturn

SpecBuild == InitBuild /\ [][NextBuild]_vars

\* i32::to_le_bytes of a number from -256 to 65535.
I32Bytes(v) == IF v < 0 THEN <<v + 256, 255, 255, 255>> ELSE LE32(v)

Max(a, b) == IF a < b THEN b ELSE a

\* Headers whose lump count or directory offset is signed, on buffers that
\* hold as many entries as a count above zero says.
SignedCounts == { -2, -1 } \cup 0..MaxEntries
SignedDirectoryOffsets ==
    { -LUMP_ENTRY_LENGTH, LUMP_ENTRY_LENGTH, HeaderLen + PayloadLen,
      2 * LUMP_ENTRY_LENGTH }
SignedBuildNames ==
    { Field(N("SND"), 2), Field(N("THINGS"), 1), Field(Start("X"), 1),
      Field(End("X"), 1), Field(N("E1M1"), 1) }
SignedBuildEntries ==
    [offset : { HeaderLen }, length : BuildLengths, name : SignedBuildNames]

InitSignedBuild ==
    /\ IndexerIdle
    /\ \E n \in SignedCounts, offset \in SignedDirectoryOffsets :
          /\ entries \in [1..Max(n, 0) -> SignedBuildEntries]
          /\ head = <<"I", "W", "A", "D">> \o I32Bytes(n) \o I32Bytes(offset)
          /\ data_len = HeaderLen + PayloadLen + Max(n, 0) * LUMP_ENTRY_LENGTH
    /\ wad = [status |-> "new"]
    /\ lookups = <<>>
    /\ earlier = None
    /\ yielded = <<>>
    /\ SynthIdle
    /\ header = [identification |-> "IWAD", num_lumps |-> 0,
                 info_table_offset |-> 0]
    /\ directory_offset = 0
    /\ directory_end = 0
    /\ produced = <<>>
    /\ outcome = "new"

SpecSignedBuild == InitSignedBuild /\ [][NextBuild]_vars

-----------------------------------------------------------------------------
(* WadIndex::get_lump on the index a WadIndex holds: a map from names to    *)
(* nodes, a node being a Lump or a Namespace with a map of children.        *)

LumpNode(lump) == [kind |-> "Lump", lump |-> lump]
NamespaceNode(children) == [kind |-> "Namespace", children |-> children]

\* get_lump that steps over a path segment naming a lump.
RECURSIVE get_lump_from_SkipLump(_, _, _)
get_lump_from_SkipLump(current_index, namespaces, name) ==
    IF namespaces = <<>>
    THEN IF name \in DOMAIN current_index THEN Some(current_index[name])
         ELSE None
    ELSE LET namespace == Head(namespaces)
         IN  IF namespace \notin DOMAIN current_index THEN None
             ELSE IF current_index[namespace].kind = "Namespace"
             THEN get_lump_from_SkipLump(current_index[namespace].children,
                                         Tail(namespaces), name)
             ELSE get_lump_from_SkipLump(current_index, Tail(namespaces), name)

\* The loop of WadIndex::get_lump from one level on, and its final get.
RECURSIVE get_lump_from(_, _, _)
get_lump_from(current_index, namespaces, name) ==
    IF namespaces = <<>>
    THEN IF name \in DOMAIN current_index THEN Some(current_index[name])
         ELSE None
    ELSE LET namespace == Head(namespaces)
         IN  IF /\ namespace \in DOMAIN current_index
                /\ current_index[namespace].kind = "Namespace"
             THEN get_lump_from(current_index[namespace].children,
                                Tail(namespaces), name)
             ELSE None

\* The paths looked up: as deep as the indexes are.
LookupPaths == SeqsUpTo(LookupNames, 2)

\* WadIndex::get_lump(&self, namespaces, name)
WadGetLump ==
    /\ wad.status = "built"
    /\ Len(lookups) < MaxLookups
    /\ \E namespaces \in LookupPaths, name \in LookupNames :
          lookups' = Append(lookups,
                            [namespaces |-> namespaces, name |-> name,
                             answer |-> get_lump_from(wad.lump_index,
                                                      namespaces, name)])
    /\ UNCHANGED <<head, wad, earlier, synthVars, yielded, indexVars, data_len,
                   entries,
                   header, directory_offset, directory_end, produced, outcome>>

\* The maps of one level: any of the names may be absent, be a lump of this
\* level, or be a namespace with one of the given maps of children.
LevelMaps(level, below) ==
    UNION { { [n \in D |-> IF shape[n][1] = "Lump"
                           THEN LumpNode(<<level, n>>)
                           ELSE NamespaceNode(shape[n][2])] :
              shape \in [D -> {<<"Lump">>}
                                 \cup { <<"Namespace", m>> : m \in below }] } :
            D \in SUBSET LookupNames }

\* The indexes of at most two levels of namespaces below the root.
Indexes == LevelMaps(0, LevelMaps(1, LevelMaps(2, {})))

InitLookup ==
    /\ IndexerIdle
    /\ TokenizerIdle
    /\ head = <<>>
    /\ lookups = <<>>
    /\ earlier = None
    /\ yielded = <<>>
    /\ SynthIdle
    /\ \E index \in Indexes :
          wad = [status |-> "built", file_type |-> "IWAD", lump_index |-> index]

NextLookup == WadGetLump

SpecLookup == InitLookup /\ [][NextLookup]_vars

-----------------------------------------------------------------------------
(* fm-synth voice.rs and envelop.rs: the VoiceManager and its voices.       *)
(*                                                                          *)
(* The level of an envelope is counted in steps, from 0 to Peak (the 1.0 of *)
(* the code).  The phase and the amplitude of a voice play no part in       *)
(* which voices are active and are left out.                                *)

Peak == 2

WaveTableTypes == { "Sine", "Square" }

\* generate_wave_tables: a table for every type.
wave_tables == WaveTableTypes

\* The increments Envelop::initialize computes from the sample rate: a step
\* at a time, or the whole way at once (as for a sample rate of 0).
Increments == { 1, Peak }

\* Envelop::default()
EnvelopDefault ==
    [level |-> 0, attack_inc |-> 0, release_inc |-> 0, state |-> "Idle"]

\* Voice::new()
VoiceDefault ==
    [wave_table_type |-> None, envelop |-> EnvelopDefault, active |-> FALSE]

\* The indexes of VoiceManager.voices.
VoiceIndexes == 0..(NumVoices - 1)

\* Envelop::initialize followed by Envelop::note_on.
EnvelopStarted(attack_inc, release_inc) ==
    [level |-> 0, attack_inc |-> attack_inc, release_inc |-> release_inc,
     state |-> "Attack"]

\* Voice::initialize
VoiceInitialize(wave_table_type, attack_inc, release_inc) ==
    [wave_table_type |-> Some(wave_table_type),
     envelop |-> EnvelopStarted(attack_inc, release_inc),
     active |-> TRUE]

\* Envelop::next_sample
EnvelopNextSample(env) ==
    CASE env.state = "Attack" ->
            IF env.level + env.attack_inc >= Peak
            THEN [env EXCEPT !.level = Peak, !.state = "Idle"]
            ELSE [env EXCEPT !.level = env.level + env.attack_inc]
      [] env.state = "Release" ->
            IF env.level - env.release_inc <= 0
            THEN [env EXCEPT !.level = 0, !.state = "Idle"]
            ELSE [env EXCEPT !.level = env.level - env.release_inc]
      [] OTHER -> env

\* Voice::next_sample: the voice is switched off once the envelope is idle
\* at level 0.
VoiceNextSample(voice) ==
    LET env == EnvelopNextSample(voice.envelop)
    IN  IF env.level <= 0 /\ env.state = "Idle"
        THEN [voice EXCEPT !.envelop = env, !.active = FALSE]
        ELSE [voice EXCEPT !.envelop = env]

\* As FindInactive, but the voices are not asked whether they are active.
FindInactive_Any == Some(0)

\* `.iter_mut().enumerate().find(|(_, voice)| !voice.is_active())`: the
\* first voice that is not active.
FindInactive ==
    LET free == { i \in VoiceIndexes : ~voices[i].active }
    IN  IF free = {} THEN None
        ELSE Some(CHOOSE i \in free : \A j \in free : i <= j)

\* VoiceManager::note_on
NoteOn ==
    /\ voices # <<>>
    /\ Len(returned) < MaxNoteOns
    /\ \E wave_table_type \in WaveTableTypes, attack_inc \in Increments,
          release_inc \in Increments :
          LET found == FindInactive
          IN  IF found # None /\ wave_table_type \in wave_tables
              THEN /\ voices' = [voices EXCEPT ![found[1]] =
                                    VoiceInitialize(wave_table_type,
                                                    attack_inc, release_inc)]
                   /\ returned' = Append(returned, found)
              ELSE /\ returned' = Append(returned, None)
                   /\ UNCHANGED voices
    /\ UNCHANGED <<indexVars, data_len, entries, header, directory_offset,
                   directory_end, produced, outcome, head, wad, lookups,
                   earlier, yielded, midiVars>>

\* VoiceManager::note_off: an index that is not one of a voice does nothing.
NoteOff ==
    /\ voices # <<>>
    /\ \E voice_index \in 0..NumVoices :
          voices' = IF voice_index \in VoiceIndexes
                    THEN [voices EXCEPT
                            ![voice_index].envelop.state = "Release"]
                    ELSE voices
    /\ UNCHANGED <<indexVars, data_len, entries, header, directory_offset,
                   directory_end, produced, outcome, head, wad, lookups,
                   earlier, yielded, returned, midiVars>>

\* VoiceManager::next_sample: every voice that has been given a wave table
\* is advanced by one sample.
NextSample ==
    /\ voices # <<>>
    /\ voices' = [i \in VoiceIndexes |->
                    IF voices[i].wave_table_type # None
                    THEN VoiceNextSample(voices[i])
                    ELSE voices[i]]
    /\ UNCHANGED <<indexVars, data_len, entries, header, directory_offset,
                   directory_end, produced, outcome, head, wad, lookups,
                   earlier, yielded, returned, midiVars>>

\* VoiceManager::new(NumVoices, _)
InitVoices ==
    /\ IndexerIdle
    /\ TokenizerIdle
    /\ FacadeIdle
    /\ MidiIdle
    /\ voices = [i \in VoiceIndexes |-> VoiceDefault]
    /\ returned = <<>>

NextVoices ==
    \/ NoteOn
    \/ NoteOff
    \/ NextSample

SpecVoices == InitVoices /\ [][NextVoices]_vars

-----------------------------------------------------------------------------
(* fm-synth midi.rs: the MidiEventScheduler and the tick of the Transport.  *)
(*                                                                          *)
(* event_index counts from 0 as in the code: it is the number of events     *)
(* passed on, and events[event_index + 1] is the event the code reads at    *)
(* `get_unchecked(event_index)`.                                            *)

MidiMessages == { "NoteOn", "NoteOff" }

MidiEvent(tick, message) == [tick |-> tick, message |-> message]

\* `events.sort_by_key(|a| a.tick)` of collect_midi_events.
SortedByTick(list) ==
    \A i, j \in 1..Len(list) : i <= j => list[i].tick <= list[j].tick

\* The index at which the loop of process stops under `>=`: an event of the
\* current tick is held back.
StopIndex_HoldsCurrent(from, tick) ==
    CHOOSE n \in from..Len(events) :
        /\ \A k \in (from + 1)..n : ~(events[k].tick >= tick)
        /\ n < Len(events) => events[n + 1].tick >= tick

\* The index at which the loop of process stops: at the first event, from
\* event_index on, whose tick is greater than the current tick, or at the end
\* of the list.
StopIndex(from, tick) ==
    CHOOSE n \in from..Len(events) :
        /\ \A k \in (from + 1)..n : ~(events[k].tick > tick)
        /\ n < Len(events) => events[n + 1].tick > tick

\* MidiEventScheduler::process with a handler that keeps what it is given.
Process ==
    /\ LET stop == StopIndex(event_index, current_tick)
       IN  /\ event_index' = stop
           /\ handled' = handled \o
                  [k \in 1..(stop - event_index) |->
                      [event |-> event_index + k - 1,
                       message |-> events[event_index + k].message,
                       at |-> current_tick]]
    /\ UNCHANGED <<indexVars, data_len, entries, header, directory_offset,
                   directory_end, produced, outcome, head, wad, lookups,
                   earlier, yielded, voiceVars, events, current_tick>>

\* Transport::advance_samples: the current tick goes up by the ticks that
\* the samples make, none or more.
AdvanceSamples ==
    /\ \E ticks \in 0..MaxTick :
          /\ current_tick + ticks <= MaxTick
          /\ current_tick' = current_tick + ticks
    /\ UNCHANGED <<indexVars, data_len, entries, header, directory_offset,
                   directory_end, produced, outcome, head, wad, lookups,
                   earlier, yielded, voiceVars, events, event_index, handled>>

\* MidiEventScheduler::new on a list sorted by tick, and Transport::new.
InitMidi ==
    /\ IndexerIdle
    /\ TokenizerIdle
    /\ FacadeIdle
    /\ VoicesIdle
    /\ events \in { list \in SeqsUpTo([tick : 0..MaxTick,
                                         message : MidiMessages], MaxEvents) :
                        SortedByTick(list) }
    /\ event_index = 0
    /\ current_tick = 0
    /\ handled = <<>>

NextMidi ==
    \/ Process
    \/ AdvanceSamples

SpecMidi == InitMidi /\ [][NextMidi]_vars

-----------------------------------------------------------------------------
(* Reading a LumpCollection tree.                                            *)

\* LumpCollection::get_lump
get_lump(coll, name) ==
    IF name \in DOMAIN coll.lumps THEN Some(coll.lumps[name]) ELSE None

\* LumpCollection::get_collection
get_collection(coll, name) ==
    IF name \in DOMAIN coll.collections THEN Some(coll.collections[name]) ELSE None

\* get_collection along a path of keys.
RECURSIVE Walk(_, _)
Walk(coll, path) ==
    IF path = <<>> THEN Some(coll)
    ELSE LET sub == get_collection(coll, Head(path))
         IN  IF sub = None THEN None ELSE Walk(sub[1], Tail(path))

\* The lump `leaf` of the collection at `path`.
Lookup(coll, path, leaf) ==
    LET at == Walk(coll, path)
    IN  IF at = None THEN None ELSE get_lump(at[1], leaf)

\* The paths of all collections of a tree, the tree itself at <<>>.
RECURSIVE AllPaths(_)
AllPaths(coll) ==
    {<<>>} \cup UNION { { <<k>> \o p : p \in AllPaths(coll.collections[k]) } :
                        k \in DOMAIN coll.collections }

\* The collections of the tree that hold a lump of this name.
LumpPlaces(coll, name) ==
    { p \in AllPaths(coll) : Lookup(coll, p, name) # None }

-----------------------------------------------------------------------------
(* The token stream as the specification reads it. *)

Indices == 1..Len(tokens)
LumpIndices == { i \in Indices : tokens[i].kind = "Lump" }

\* The reserved map-lump set of the specification.
ReservedMapLumps ==
    { N("THINGS"), N("LINEDEFS"), N("SIDEDEFS"), N("VERTEXES"), N("SECTORS"),
      N("SEGS"), N("SSECTORS"), N("NODES"), N("REJECT"), N("BLOCKMAP"),
      N("BEHAVIOR") }

\* A name with one trailing suffix removed.
StripSuffix(name, suffix) ==
    IF EndsWith(name, suffix) THEN SubSeq(name, 1, Len(name) - 1) ELSE name

\* The start markers (by index) that are open just before token i: a start
\* marker opens, an end marker closes the innermost open one.
RECURSIVE OpenBefore(_)
OpenBefore(i) ==
    IF i = 1 THEN <<>>
    ELSE LET open == OpenBefore(i - 1)
             t == tokens[i - 1]
         IN  IF t.kind = "MarkerStart" THEN Append(open, i - 1)
             ELSE IF t.kind = "MarkerEnd" /\ open # <<>>
                  THEN SubSeq(open, 1, Len(open) - 1)
                  ELSE open

\* Every end marker closes the innermost open start marker of its own name,
\* and nothing is left open.
WellNested ==
    /\ \A i \in Indices : tokens[i].kind = "MarkerEnd" =>
          LET open == OpenBefore(i)
          IN  /\ open # <<>>
              /\ StripSuffix(tokens[open[Len(open)]].name, "_START")
                     = StripSuffix(tokens[i].name, "_END")
    /\ OpenBefore(Len(tokens) + 1) = <<>>

\* Token i is a lump of a map run: a map marker precedes it with nothing but
\* reserved-name lumps in between.
InMapRun(i) ==
    \E m \in 1..(i - 1) :
        /\ tokens[m].kind = "MapMarker"
        /\ \A k \in (m + 1)..i :
              tokens[k].kind = "Lump" /\ tokens[k].name \in ReservedMapLumps

\* No other lump token carries the name of lump token i.
NameOnce(i) ==
    \A j \in LumpIndices : tokens[j].name = tokens[i].name => j = i

\* The path of the namespaces opened by these start markers, outermost first.
PathOf(open) == [k \in 1..Len(open) |-> NamespaceKey(tokens[open[k]].name)]

Built == result.status = "ok"

-----------------------------------------------------------------------------
(* C1: in a well-nested stream that was indexed, a lump token outside a map *)
(* run (its name used by no other lump) is a direct child of the namespace  *)
(* whose start markers are open at its position, with its own reference,    *)
(* and of no other collection of the tree: not of an enclosing namespace,   *)
(* not of a nested one, not of the root.                                    *)
C1_LumpsFollowNesting ==
    (Built /\ WellNested) =>
        \A i \in LumpIndices :
            (~InMapRun(i) /\ NameOnce(i)) =>
                /\ LumpPlaces(result.index, tokens[i].name) = {PathOf(OpenBefore(i))}
                /\ Lookup(result.index, PathOf(OpenBefore(i)), tokens[i].name)
                       = Some(tokens[i].ref)

\* OUTER_START INNER_START INNER_END lump OUTER_END was indexed: a lump that
\* follows the inner namespace's end marker inside the outer namespace.
C1_Witness ==
    /\ Built /\ WellNested
    /\ \E j \in LumpIndices :
          /\ j > 1 /\ tokens[j - 1].kind = "MarkerEnd"
          /\ Len(OpenBefore(j)) = 1
          /\ NameOnce(j) /\ ~InMapRun(j)

-----------------------------------------------------------------------------
(* C2: a marker pair opened at the root with nothing but k >= 0 lumps of    *)
(* distinct names inside gives a namespace in the root that holds exactly   *)
(* those k lumps and no sub-namespace; none of the interior lumps is a      *)
(* direct child of the root, and the lumps that follow the end marker are.  *)

Interior(s, e) == (s + 1)..(e - 1)

RootPair(s, e) ==
    /\ s < e
    /\ tokens[s].kind = "MarkerStart" /\ tokens[e].kind = "MarkerEnd"
    /\ OpenBefore(s) = <<>>
    /\ StripSuffix(tokens[s].name, "_START") = StripSuffix(tokens[e].name, "_END")
    /\ \A k \in Interior(s, e) : tokens[k].kind = "Lump"
    /\ \A k, l \in Interior(s, e) : tokens[k].name = tokens[l].name => k = l

\* The lumps that follow token e with no marker in between.
Following(e) ==
    { j \in (e + 1)..Len(tokens) : \A k \in (e + 1)..j : tokens[k].kind = "Lump" }

C2_FlatNamespace ==
    Built =>
        \A s, e \in Indices :
            RootPair(s, e) =>
                LET ns == get_collection(result.index, NamespaceKey(tokens[s].name))
                IN  /\ ns # None
                    /\ DOMAIN ns[1].lumps = { tokens[k].name : k \in Interior(s, e) }
                    /\ \A k \in Interior(s, e) :
                          /\ get_lump(ns[1], tokens[k].name) = Some(tokens[k].ref)
                          /\ get_lump(result.index, tokens[k].name) # Some(tokens[k].ref)
                    /\ DOMAIN ns[1].collections = {}
                    /\ \A j \in Following(e) :
                          /\ get_lump(result.index, tokens[j].name) # None
                          /\ get_lump(result.index, tokens[j].name)[1] >= j

\* X_START lump X_END lump was indexed.
C2_Witness ==
    /\ Built
    /\ \E s, e \in Indices :
          /\ RootPair(s, e)
          /\ Interior(s, e) # {}
          /\ Following(e) # {}

-----------------------------------------------------------------------------
(* Map runs as the specification reads them. *)

MapIndices == { m \in Indices : tokens[m].kind = "MapMarker" }

\* The lumps of the run of map marker m: the reserved-name lumps that follow
\* it with nothing else in between.
Run(m) ==
    { k \in (m + 1)..Len(tokens) :
        \A j \in (m + 1)..k :
            tokens[j].kind = "Lump" /\ tokens[j].name \in ReservedMapLumps }

\* The token that ends the run of m (Len(tokens) + 1 at the end of the stream).
RunEnd(m) == m + Cardinality(Run(m)) + 1

MapPath(m) == <<MAPS, tokens[m].name>>

Done == result.status # "running"

-----------------------------------------------------------------------------
(* C3: in a well-nested stream that was indexed,                            *)
(* the reserved-name lumps that follow a map marker, and only they, are     *)
(* under MAPS/<map name>; the token that ends the run is handled by the     *)
(* enclosing level: a lump is a child of the namespace open there (the root *)
(* if none is), a map marker has a map of its own.                          *)
C3_MapRunBoundary ==
    (Built /\ WellNested) =>
        \A m \in MapIndices :
            LET map == Walk(result.index, MapPath(m))
                e == RunEnd(m)
            IN  /\ map # None
                /\ DOMAIN map[1].lumps = { tokens[k].name : k \in Run(m) }
                /\ \A k \in Run(m) :
                      get_lump(map[1], tokens[k].name) = Some(tokens[k].ref)
                /\ (e <= Len(tokens) /\ tokens[e].kind = "Lump" /\ NameOnce(e)) =>
                      LumpPlaces(result.index, tokens[e].name)
                          = {PathOf(OpenBefore(e))}
                /\ (e <= Len(tokens) /\ tokens[e].kind = "MapMarker") =>
                      Walk(result.index, MapPath(e)) # None

-----------------------------------------------------------------------------
(* C4: an end marker whose name without its `_END` suffix differs from the  *)
(* name of the innermost open namespace (its start marker's name without    *)
(* the `_START` suffix) is never stepped over, and indexing ends there with *)
(* MismatchedEndMarker naming the expected and the found namespace.         *)

Mismatched(i) ==
    /\ tokens[i].kind = "MarkerEnd"
    /\ OpenBefore(i) # <<>>
    /\ StripSuffix(tokens[OpenBefore(i)[Len(OpenBefore(i))]].name, "_START")
           # StripSuffix(tokens[i].name, "_END")

C4_MismatchFails ==
    \A i \in Indices :
        Mismatched(i) =>
            /\ pos <= i
            /\ (pos = i /\ Done) =>
                  result = Err("MismatchedEndMarker",
                      StripSuffix(tokens[OpenBefore(i)[Len(OpenBefore(i))]].name,
                                  "_START"),
                      StripSuffix(tokens[i].name, "_END"))

-----------------------------------------------------------------------------
(* C5: an end marker met while no namespace is open is never stepped over:  *)
(* indexing ends there with DanglingEndMarker.                              *)

Dangling(i) == tokens[i].kind = "MarkerEnd" /\ OpenBefore(i) = <<>>

C5_DanglingEndFails ==
    \A i \in Indices :
        Dangling(i) =>
            /\ pos <= i
            /\ (pos = i /\ Done) =>
                  /\ result.status = "err"
                  /\ result.kind = "DanglingEndMarker"

-----------------------------------------------------------------------------
(* C6: when the stream ends with a namespace still open, indexing fails     *)
(* with UnterminatedNamespace and returns no index.                         *)
C6_UnterminatedFails ==
    (Done /\ AtEnd /\ OpenBefore(Len(tokens) + 1) # <<>>) =>
        /\ result.status = "err"
        /\ result.kind = "UnterminatedNamespace"

-----------------------------------------------------------------------------
(* C7: in a well-nested stream that was indexed,                            *)
(* a map marker met inside an open namespace has a map under MAPS that      *)
(* holds the reserved-name lumps of its run, and the enclosing namespace    *)
(* does not hold them.                                                      *)
C7_MapInsideNamespace ==
    (Built /\ WellNested) =>
        \A m \in MapIndices :
            OpenBefore(m) # <<>> =>
                /\ Walk(result.index, MapPath(m)) # None
                /\ \A k \in Run(m) :
                      /\ Lookup(result.index, MapPath(m), tokens[k].name) # None
                      /\ NameOnce(k) =>
                            Lookup(result.index, PathOf(OpenBefore(m)),
                                   tokens[k].name) = None

-----------------------------------------------------------------------------
(* C8: the index built from a well-nested stream has a MAPS namespace in    *)
(* the root with no lumps of its own and exactly one namespace per map      *)
(* marker name of the stream (none when the stream has no map marker), each *)
(* holding reserved-name lumps only and no namespace.                       *)
C8_MapsNamespace ==
    (Built /\ WellNested) =>
        LET maps == get_collection(result.index, MAPS)
        IN  /\ maps # None
            /\ DOMAIN maps[1].lumps = {}
            /\ DOMAIN maps[1].collections = { tokens[m].name : m \in MapIndices }
            /\ \A k \in DOMAIN maps[1].collections :
                  /\ DOMAIN maps[1].collections[k].lumps \subseteq ReservedMapLumps
                  /\ DOMAIN maps[1].collections[k].collections = {}

-----------------------------------------------------------------------------
(* C9: where a namespace is filed. *)

StartIndices == { s \in Indices : tokens[s].kind = "MarkerStart" }

\* The lumps that lie directly in the namespace opened by start marker s.
DirectLumps(s) ==
    { i \in LumpIndices :
        OpenBefore(i) = Append(OpenBefore(s), s) /\ ~InMapRun(i) /\ NameOnce(i) }

\* The path of these start markers by their stripped names.
StrippedPathOf(open) ==
    [k \in 1..Len(open) |-> StripSuffix(tokens[open[k]].name, "_START")]

-----------------------------------------------------------------------------
(* C10: a directory entry whose offset + length lies beyond the buffer makes *)
(* the build fail with the OutOfBoundsLump error, wherever the entry is: the *)
(* token iterator, once it has taken the entry, has yielded that error for   *)
(* it and has not panicked.                                                  *)

EntryIndices == 1..Len(entries)

OutOfBounds(k) == entries[k].offset + entries[k].length > data_len

\* next() has been called for entry k.
Taken(k) ==
    /\ outcome \in {"iterating", "exhausted", "panicked"}
    /\ directory_offset >= header.info_table_offset + k * LUMP_ENTRY_LENGTH

C10_OutOfBoundsIsError ==
    \A k \in EntryIndices :
        (OutOfBounds(k) /\ Taken(k)) =>
            /\ outcome # "panicked"
            /\ Len(produced) >= k
            /\ produced[k] = ItemErr("OutOfBoundsLump")

-----------------------------------------------------------------------------
(* C11: for non-negative header fields, creating the token sequence fails    *)
(* with BufferTooSmall exactly when directory_offset + lump_count * 16       *)
(* exceeds the buffer length; and once creation has succeeded, the 16-byte   *)
(* entry the iterator reads next lies entirely inside the buffer.            *)

Created == outcome \in {"iterating", "exhausted", "panicked"}

DeclaredEnd == header.info_table_offset + header.num_lumps * LUMP_ENTRY_LENGTH

C11_BufferTooSmallExactly ==
    (header.num_lumps >= 0 /\ header.info_table_offset >= 0) =>
        /\ outcome # "new" =>
              (outcome = "BufferTooSmall" <=> DeclaredEnd > data_len)
        /\ outcome = "BufferTooSmall" => produced = <<>>
        /\ (outcome = "iterating" /\ directory_offset < directory_end) =>
              /\ directory_offset >= header.info_table_offset
              /\ directory_offset + LUMP_ENTRY_LENGTH <= data_len

\* A buffer that ends exactly with its directory: created, two entries read.
C11_Witness ==
    /\ outcome = "iterating"
    /\ DeclaredEnd = data_len
    /\ Len(produced) = 2
    /\ directory_offset < directory_end

-----------------------------------------------------------------------------
(* C12: a buffer shorter than 12 bytes fails with BufferTooSmall; a buffer   *)
(* of at least 12 bytes whose first four bytes are neither IWAD nor PWAD     *)
(* fails with InvalidMagic; otherwise the header's lump count and directory  *)
(* offset are the signed 32-bit values whose little-endian two's-complement  *)
(* bytes are bytes 4..8 and 8..12, and the archive kind is the one the magic *)
(* names.                                                                    *)

\* Byte k (0 the lowest) of the 32-bit two's-complement form of v.
ByteOf(v, k) == (v \div (256 ^ k)) % 256

IsLE32(v, b) ==
    /\ v >= -2147483647 - 1
    /\ v <= 2147483647
    /\ \A k \in 0..3 : ByteOf(v, k) = b[k + 1]

MagicOf(b) == SubSeq(b, 1, 4)

C12_HeaderParse ==
    wad.status \notin {"new", "idle"} =>
        IF data_len < 12
        THEN wad = [status |-> "err", error |-> "BufferTooSmall"]
        ELSE IF MagicOf(head) \notin {<<"I", "W", "A", "D">>, <<"P", "W", "A", "D">>}
        THEN wad = [status |-> "err", error |-> "InvalidMagic"]
        ELSE /\ wad.status = "header"
             /\ IsLE32(header.num_lumps, SubSeq(head, 5, 8))
             /\ IsLE32(header.info_table_offset, SubSeq(head, 9, 12))
             /\ wad.file_type =
                   (IF MagicOf(head)[1] = "I" THEN "IWAD" ELSE "PWAD")
             /\ header.identification = wad.file_type

\* A PWAD header with a negative lump count and the directory at offset 12.
C12_Witness ==
    /\ wad.status = "header"
    /\ wad.file_type = "PWAD"
    /\ header.num_lumps < 0
    /\ header.info_table_offset = 12

-----------------------------------------------------------------------------
(* C13: a zero-length directory entry whose name is neither a map name nor   *)
(* ends with _START or _END makes the build fail with UnknownMarkerType,     *)
(* wherever it stands: once the build has read the entry the last thing the  *)
(* token iterator yielded is that error, for that entry or for an earlier    *)
(* entry of the same kind; the entry is not skipped, and no index is made.   *)

\* The map-name patterns, as the claim states them.
MapPatternNames == {"E1M1", "E1M2", "MAP01"}

\* The upper-case form of a symbol.
UpperCase(sym) ==
    CASE sym = "s" -> "S"
      [] sym = "snd" -> "SND"
      [] sym = "_start" -> "_START"
      [] sym = "_end" -> "_END"
      [] sym = "e1m1" -> "E1M1"
      [] OTHER -> sym

\* The name of an entry: its field up to the first zero byte, the whole
\* field if it has none, in upper case.
RECURSIVE UpToNul(_)
UpToNul(field) ==
    IF field = <<>> \/ field[1] = NUL THEN <<>>
    ELSE <<field[1]>> \o UpToNul(Tail(field))

NameOfField(field) ==
    LET cut == UpToNul(field) IN [i \in 1..Len(cut) |-> UpperCase(cut[i])]

EntryName(k) == NameOfField(entries[k].name)

UnknownMarker(k) ==
    /\ entries[k].length = 0
    /\ ~(Len(EntryName(k)) = 1 /\ EntryName(k)[1] \in MapPatternNames)
    /\ ~EndsWith(EntryName(k), "_START")
    /\ ~EndsWith(EntryName(k), "_END")

InBounds(k) ==
    /\ entries[k].offset >= 0
    /\ entries[k].length >= 0
    /\ entries[k].offset + entries[k].length <= data_len

UnknownMarkerError == ItemErr("Unknown marker type")

C13_UnknownMarkerFails ==
    \A k \in EntryIndices :
        (UnknownMarker(k) /\ \A j \in 1..k : InBounds(j)) =>
            /\ result.status = "idle"
            /\ Taken(k) =>
                  /\ outcome = "iterating"
                  /\ Len(produced) <= k
                  /\ UnknownMarker(Len(produced))
                  /\ produced[Len(produced)] = UnknownMarkerError
                  /\ ~ENABLED NextBuild

\* The unrecognised marker is the third entry, inside an open namespace.
C13_Witness ==
    /\ Len(entries) = 3
    /\ entries[1].length = 0 /\ EntryName(1) = Start("X")
    /\ entries[2].length > 0
    /\ UnknownMarker(3)
    /\ Taken(3)

-----------------------------------------------------------------------------
(* C14: for a directory of n in-bounds entries the token iterator yields     *)
(* exactly n results, the i-th made of the i-th entry: a Lump with the       *)
(* entry's name and range iff its length is positive, and for length 0 a     *)
(* MapStart for a map name, a NamespaceStart for a name ending _START, a     *)
(* NamespaceEnd for a name ending _END; after the n-th result every further  *)
(* call yields the end of the sequence.                                      *)

AllInBounds == \A k \in EntryIndices : InBounds(k)

\* The number of next() calls that have read an entry.
EntriesRead ==
    (directory_offset - header.info_table_offset) \div LUMP_ENTRY_LENGTH

\* The i-th result is the one the claim derives from the i-th entry.
DerivedFrom(item, e) ==
    LET name == NameOfField(e.name)
    IN  IF e.length > 0
        THEN /\ item.ok
             /\ item.token.kind = "Lump"
             /\ item.token.name = name
             /\ item.token.ref.start = e.offset
             /\ item.token.ref.end = e.offset + e.length
        ELSE IF Len(name) = 1 /\ name[1] \in MapPatternNames
        THEN item.ok /\ item.token = [kind |-> "MapMarker", name |-> name]
        ELSE IF EndsWith(name, "_START")
        THEN item.ok /\ item.token = [kind |-> "MarkerStart", name |-> name]
        ELSE IF EndsWith(name, "_END")
        THEN item.ok /\ item.token = [kind |-> "MarkerEnd", name |-> name]
        ELSE ~item.ok

C14_TokensFollowEntries ==
    (AllInBounds /\ Created) =>
        /\ Len(produced) = EntriesRead
        /\ Len(produced) <= Len(entries)
        /\ \A i \in 1..Len(produced) : DerivedFrom(produced[i], entries[i])
        /\ outcome = "exhausted" =>
              /\ Len(produced) = Len(entries)
              /\ ~ENABLED TokenNext
              /\ ENABLED TokenNextNone

\* Three entries, a start marker, a lump and a map marker, all yielded.
C14_Witness ==
    /\ outcome = "exhausted"
    /\ Len(produced) = 3
    /\ produced[1].ok /\ produced[1].token.kind = "MarkerStart"
    /\ produced[2].ok /\ produced[2].token.kind = "Lump"
    /\ produced[3].ok /\ produced[3].token.kind = "MapMarker"

-----------------------------------------------------------------------------
(* C15: for a buffer that encodes N >= 0 non-empty lumps with distinct names *)
(* and no markers, the build succeeds and lookup([], name) returns, for      *)
(* every encoded name, a reference whose range is [offset, offset + length)  *)
(* as that name's directory entry encodes it.                                *)

OnlyDistinctLumps ==
    /\ \A k \in EntryIndices : entries[k].length > 0 /\ InBounds(k)
    /\ \A j, k \in EntryIndices : EntryName(j) = EntryName(k) => j = k

NothingFailed ==
    /\ wad.status # "err"
    /\ outcome \notin {"BufferTooSmall", "panicked"}
    /\ NoErrItem
    /\ result.status # "err"

HasRange(found, start, end) ==
    /\ found # None
    /\ found[1].start = start
    /\ found[1].end = end

C15_RootLookupGivesRange ==
    OnlyDistinctLumps =>
        /\ NothingFailed
        /\ Built =>
              \A k \in EntryIndices :
                  HasRange(Lookup(result.index, <<>>, EntryName(k)),
                           entries[k].offset,
                           entries[k].offset + entries[k].length)

\* Three lumps with two different ranges, built.
C15_Witness ==
    /\ Built
    /\ OnlyDistinctLumps
    /\ Len(entries) = 3
    /\ entries[1].offset # entries[2].offset

-----------------------------------------------------------------------------
(* C16: lookup(path, leaf) returns none whenever some path segment is absent *)
(* at its level, some path segment names a lump rather than a namespace, or  *)
(* the leaf is absent in the namespace reached; otherwise it returns the     *)
(* node found by walking the path from the root.  It leaves the index        *)
(* unchanged, so every answer given stays the answer of the index as it is,  *)
(* and equal lookups have equal answers.                                     *)

\* The children reached from the root along the path, segment by segment
\* from its front; none if a segment is absent or is a lump.
RECURSIVE Reached(_, _)
Reached(index, path) ==
    IF path = <<>> THEN Some(index)
    ELSE LET parent == Reached(index, SubSeq(path, 1, Len(path) - 1))
             last == path[Len(path)]
         IN  IF parent = None THEN None
             ELSE IF last \notin DOMAIN parent[1] THEN None
             ELSE IF parent[1][last].kind = "Lump" THEN None
             ELSE Some(parent[1][last].children)

Resolved(index, path, leaf) ==
    LET at == Reached(index, path)
    IN  IF at = None THEN None
        ELSE IF leaf \notin DOMAIN at[1] THEN None
        ELSE Some(at[1][leaf])

C16_LookupTotal ==
    /\ \A i \in 1..Len(lookups) :
          lookups[i].answer =
              Resolved(wad.lump_index, lookups[i].namespaces, lookups[i].name)
    /\ \A i, j \in 1..Len(lookups) :
          (lookups[i].namespaces = lookups[j].namespaces
              /\ lookups[i].name = lookups[j].name)
          => lookups[i].answer = lookups[j].answer

\* A path whose first segment names a lump answered none, and a lookup two
\* namespaces deep found its lump.
C16_Witness ==
    /\ Len(lookups) = 2
    /\ Len(lookups[1].namespaces) = 1
    /\ lookups[1].namespaces[1] \in DOMAIN wad.lump_index
    /\ wad.lump_index[lookups[1].namespaces[1]].kind = "Lump"
    /\ lookups[1].answer = None
    /\ Len(lookups[2].namespaces) = 2
    /\ lookups[2].answer # None
    /\ lookups[2].answer[1].kind = "Lump"

-----------------------------------------------------------------------------
(* C17: in a well-nested stream that was indexed, of the lump tokens that    *)
(* share a name and a level (the root, one open namespace, or one map run)   *)
(* the last one in directory order is the one that lookup of the name at     *)
(* that level returns; lumps of the same name at other levels do not change  *)
(* that.                                                                     *)

\* The map marker whose run lump token i belongs to.
MapOf(i) == CHOOSE m \in MapIndices : i \in Run(m)

SameLevel(i, j) ==
    /\ InMapRun(i) = InMapRun(j)
    /\ IF InMapRun(i) THEN MapOf(i) = MapOf(j)
       ELSE OpenBefore(i) = OpenBefore(j)

LevelPath(i) ==
    IF InMapRun(i) THEN MapPath(MapOf(i)) ELSE PathOf(OpenBefore(i))

\* The lump tokens with the name and the level of lump token i.
Rivals(i) ==
    { j \in LumpIndices : tokens[j].name = tokens[i].name /\ SameLevel(i, j) }

LastOf(S) == CHOOSE j \in S : \A k \in S : k <= j

C17_LastLumpWins ==
    (Built /\ WellNested) =>
        \A i \in LumpIndices :
            Cardinality(Rivals(i)) > 1 =>
                Lookup(result.index, LevelPath(i), tokens[i].name)
                    = Some(tokens[LastOf(Rivals(i))].ref)

-----------------------------------------------------------------------------
(* C18: when, in a well-nested stream, two namespaces of the same name are   *)
(* closed in the same frame, or two map markers carry the same map name, the *)
(* build succeeds and the later one is the one found under that name: the    *)
(* collision is not an error.                                                *)

\* Start markers s < t of one name, opened in the same frame.
TwinNamespaces(s, t) ==
    /\ s \in StartIndices /\ t \in StartIndices
    /\ s < t
    /\ tokens[s].name = tokens[t].name
    /\ OpenBefore(s) = OpenBefore(t)

\* Map markers m < n of one name.
TwinMaps(m, n) ==
    /\ m \in MapIndices /\ n \in MapIndices
    /\ m < n
    /\ tokens[m].name = tokens[n].name

\* The names of the lumps that lie directly in the namespace opened by s.
DirectNames(s) ==
    { tokens[i].name :
        i \in { j \in LumpIndices :
                  OpenBefore(j) = Append(OpenBefore(s), s) /\ ~InMapRun(j) } }

\* No later start marker of this frame has the name of t.
LastTwin(t) == \A u \in StartIndices : ~TwinNamespaces(t, u)

LastMap(n) == \A k \in MapIndices : ~TwinMaps(n, k)

C18_LaterNamespaceWins ==
    (Done /\ WellNested) =>
        /\ \A s, t \in StartIndices :
              (TwinNamespaces(s, t) /\ LastTwin(t)) =>
                  /\ Built
                  /\ LET ns == Walk(result.index,
                                    PathOf(Append(OpenBefore(t), t)))
                     IN  ns # None /\ DOMAIN ns[1].lumps = DirectNames(t)
        /\ \A m, n \in MapIndices :
              (TwinMaps(m, n) /\ LastMap(n)) =>
                  /\ Built
                  /\ LET map == Walk(result.index, MapPath(n))
                     IN  /\ map # None
                         /\ DOMAIN map[1].lumps
                               = { tokens[k].name : k \in Run(n) }

-----------------------------------------------------------------------------
(* C19: a lump belongs to the open map run iff its name is one of the eleven *)
(* reserved names, BEHAVIOR included.  For a map marker at root level of a   *)
(* well-nested stream that was indexed: every reserved-name lump of its run  *)
(* is found under MAPS/<map name> with the reference of a lump of that run,  *)
(* and a lump of any other name that ends the run is not in the map.         *)

RootMapIndices == { m \in MapIndices : OpenBefore(m) = <<>> }

C19_ReservedNamesJoinRun ==
    (Built /\ WellNested) =>
        \A m \in RootMapIndices :
            LET map == Walk(result.index, MapPath(m))
                e == RunEnd(m)
            IN  /\ map # None
                /\ \A i \in Run(m) :
                      /\ get_lump(map[1], tokens[i].name) # None
                      /\ get_lump(map[1], tokens[i].name)[1]
                            \in { tokens[j].ref : j \in Run(m) }
                /\ (e <= Len(tokens) /\ tokens[e].kind = "Lump") =>
                      get_lump(map[1], tokens[e].name) = None

-----------------------------------------------------------------------------
(* C20: every name a token carries is the entry's name field cut at its      *)
(* first zero byte (the whole field if it has none) and then put in upper    *)
(* case; so two fields that differ only in letter case, or only in the bytes *)
(* after the first zero byte, are classified alike and give the same name,   *)
(* and a zero-length entry whose field reads s_start is a namespace start.   *)

C20_NamesDecoded ==
    Created =>
        \A i \in 1..Len(produced) :
            /\ produced[i].ok => produced[i].token.name = EntryName(i)
            /\ (entries[i].length = 0 /\ EntryName(i) = Start("S")) =>
                  produced[i] = ItemOk(MarkerStart(Start("S")))
            /\ \A j \in 1..Len(produced) :
                  ( /\ EntryName(i) = EntryName(j)
                    /\ (entries[i].length = 0) = (entries[j].length = 0) ) =>
                      /\ produced[i].ok = produced[j].ok
                      /\ produced[i].ok =>
                            /\ produced[i].token.kind = produced[j].token.kind
                            /\ produced[i].token.name = produced[j].token.name

-----------------------------------------------------------------------------
(* C21: for every finite token stream the indexer terminates, with an index  *)
(* or an error, in one forward pass.  Every step leaves the stream alone and *)
(* takes no token or the next one; a step that takes no token returns from a *)
(* call or ends the run, so the loops of parse_tokens, parse_namespace and   *)
(* parse_map advance on every round; an index is returned only when every    *)
(* token has been taken, once; and a map run that ends on a token hands that *)
(* token, untaken, to parse_tokens.                                          *)

Depth == Len(stack)

TakesAtMostOne ==
    /\ tokens' = tokens
    /\ pos' \in {pos, pos + 1}
    /\ pos' <= Len(tokens) + 1
    /\ pos' = pos => (Depth' < Depth \/ result'.status # "running")

HandsBack ==
    (InFn("parse_map") /\ ~AtEnd /\ result'.status = "running") =>
        \/ pos' = pos + 1 /\ Depth' = Depth
        \/ pos' = pos /\ Depth' = 1

C21_SinglePass ==
    /\ [][TakesAtMostOne /\ HandsBack]_vars
    /\ [](Built => pos = Len(tokens) + 1)
    /\ <>Done

\* A map run that ended on a lump of the root, and the index was returned.
C21_Witness ==
    /\ Built
    /\ Len(tokens) = 5
    /\ tokens[1].kind = "MapMarker"
    /\ tokens[2].kind = "Lump" /\ is_map_lump(tokens[2].name)
    /\ tokens[3].kind = "Lump" /\ ~is_map_lump(tokens[3].name)
    /\ tokens[4].kind = "MarkerStart"

-----------------------------------------------------------------------------
(* C22: indexing is deterministic.  When the same token stream is indexed a  *)
(* second time, the second call returns what the first returned: the same    *)
(* error, or an index equal to the first in its namespaces, its lump names   *)
(* and its references, at every depth.                                       *)

-----------------------------------------------------------------------------
(* C23: the name of a namespace is its marker's name without the one         *)
(* trailing _START, or _END, and nothing else removed.  When parse_namespace *)
(* meets an end marker it closes the open namespace iff the two names so     *)
(* stripped are equal, and fails otherwise with the mismatch error that      *)
(* names them: _START followed by _END_END expects the empty name and finds  *)
(* _END.                                                                     *)

MeetsEndMarker == InFn("parse_namespace") /\ PeekIs("MarkerEnd")

C23_SingleSuffixStripped ==
    [][ MeetsEndMarker =>
          LET open == StripSuffix(Top.key, "_START")
              found == StripSuffix(Peek.name, "_END")
          IN  IF open = found
              THEN /\ ~(result'.status = "err"
                          /\ result'.kind = "MismatchedEndMarker")
                   /\ result'.status = "running" =>
                          /\ Len(stack') = Len(stack) - 1
                          /\ pos' = pos + 1
              ELSE result' = Err("MismatchedEndMarker", open, found) ]_vars

-----------------------------------------------------------------------------
(* C24: note_on returns the index of a voice that was not active when it was *)
(* called and makes that voice active, leaving the others as they were; so   *)
(* after any note_on, note_off and next_sample calls it never returns the    *)
(* index of a voice that is still active; and it returns None exactly when   *)
(* every voice is active.                                                    *)

NoteOnReturned == Len(returned') = Len(returned) + 1

C24_NoteOnTakesFreeVoice ==
    [][ NoteOnReturned =>
          LET r == returned'[Len(returned')]
          IN  /\ r = None <=> \A i \in VoiceIndexes : voices[i].active
              /\ r # None =>
                    /\ r[1] \in VoiceIndexes
                    /\ ~voices[r[1]].active
                    /\ voices'[r[1]].active
                    /\ \A j \in VoiceIndexes \ {r[1]} :
                          voices'[j] = voices[j] ]_vars

\* Both voices were taken, a third note_on was refused, and after the first
\* voice had been released and had faded a fourth note_on took it again
\* while the second was still active.
C24_Witness ==
    /\ returned = <<Some(0), Some(1), None, Some(0)>>
    /\ voices[0].active
    /\ voices[1].active

-----------------------------------------------------------------------------
(* C25: over any process calls with a tick that never goes down, the events  *)
(* of a list sorted by tick reach the handler in list order, one after the   *)
(* other and none twice, each in a call whose current tick is at least the   *)
(* event's tick; a call that passes events on leaves no event behind whose   *)
(* tick has come, and whenever an event's tick has come a call passes it on. *)

\* The events not passed on whose tick has come.
Due ==
    { k \in (Len(handled) + 1)..Len(events) : events[k].tick <= current_tick }

DeliveredInOrder ==
    /\ event_index = Len(handled)
    /\ Len(handled) <= Len(events)
    /\ \A k \in 1..Len(handled) :
          /\ handled[k].event = k - 1
          /\ handled[k].message = events[k].message
          /\ events[k].tick <= handled[k].at
          /\ handled[k].at <= current_tick
    /\ \A j, k \in 1..Len(handled) : j <= k => handled[j].at <= handled[k].at

C25_EventsOnceInOrder ==
    /\ []DeliveredInOrder
    /\ [](Due # {} => ENABLED <<Process>>_vars)
    /\ [][ /\ current_tick' >= current_tick
           /\ events' = events
           /\ handled' # handled =>
                 /\ SubSeq(handled', 1, Len(handled)) = handled
                 /\ Due' = {} ]_vars

\* Three events of three different ticks, passed on in three calls.
C25_Witness ==
    /\ Len(events) = 3
    /\ Len(handled) = 3
    /\ handled[1].at < handled[2].at
    /\ handled[2].at < handled[3].at
    /\ events[1].tick < handled[1].at

-----------------------------------------------------------------------------
(* C26: over a directory of consecutive maps, each a map marker followed by  *)
(* reserved map lumps and then directly by the next map marker, the map      *)
(* iterator yields one Map for each map marker, in directory order, with     *)
(* the marker's name and the lumps of its own run, and None after the last.  *)

MarkerEntries == { k \in EntryIndices : entries[k].length = 0 }

ConsecutiveMaps ==
    /\ AllInBounds
    /\ Len(entries) >= 1
    /\ 1 \in MarkerEntries
    /\ \A k \in EntryIndices :
          IF k \in MarkerEntries
          THEN Len(EntryName(k)) = 1 /\ EntryName(k)[1] \in MapPatternNames
          ELSE EntryName(k) \in ReservedMapLumps

\* The c-th map marker of the directory.
NthMarker(c) ==
    CHOOSE m \in MarkerEntries :
        Cardinality({ j \in MarkerEntries : j <= m }) = c

\* The lumps between a map marker and the next one.
EntryRun(m) ==
    { k \in (m + 1)..Len(entries) :
        \A j \in (m + 1)..k : j \notin MarkerEntries }

\* The map of marker m: of two lumps of one name the later is the map's.
ExpectedMap(m) ==
    [name |-> EntryName(m),
     lumps |->
        [n \in { EntryName(k) : k \in EntryRun(m) } |->
            LET last == CHOOSE k \in EntryRun(m) :
                            /\ EntryName(k) = n
                            /\ \A j \in EntryRun(m) :
                                  EntryName(j) = n => j <= k
            IN  [start |-> entries[last].offset,
                 end |-> entries[last].offset + entries[last].length,
                 name |-> n]]]

SameMap(a, b) ==
    /\ a.name = b.name
    /\ DOMAIN a.lumps = DOMAIN b.lumps
    /\ \A n \in DOMAIN a.lumps : a.lumps[n] = b.lumps[n]

C26_OneMapPerMarker ==
    ConsecutiveMaps =>
        /\ outcome # "panicked"
        /\ \A c \in 1..Len(yielded) :
              IF c <= Cardinality(MarkerEntries)
              THEN /\ yielded[c] # None
                   /\ SameMap(yielded[c][1], ExpectedMap(NthMarker(c)))
              ELSE yielded[c] = None

-----------------------------------------------------------------------------
(* C27: when a stream whose lump names are pairwise distinct has been        *)
(* indexed, the lump leaves of the whole tree (the root, the namespaces at   *)
(* every depth and the maps under MAPS) are as many as the Lump tokens of    *)
(* the stream, and every Lump token is a leaf of exactly one place.          *)

RECURSIVE SumOf(_, _)
SumOf(f, keys) ==
    IF keys = {} THEN 0
    ELSE LET k == CHOOSE x \in keys : TRUE
         IN  f[k] + SumOf(f, keys \ {k})

\* The number of lump leaves of a collection and of all below it.
RECURSIVE LeafCount(_)
LeafCount(coll) ==
    Cardinality(DOMAIN coll.lumps)
      + SumOf([key \in DOMAIN coll.collections |->
                  LeafCount(coll.collections[key])],
              DOMAIN coll.collections)

DistinctLumpNames ==
    \A i, j \in LumpIndices : tokens[i].name = tokens[j].name => i = j

C27_EveryLumpOnce ==
    (Built /\ DistinctLumpNames) =>
        /\ LeafCount(result.index) = Cardinality(LumpIndices)
        /\ \A i \in LumpIndices :
              Cardinality(LumpPlaces(result.index, tokens[i].name)) = 1

\* Three lumps indexed: one in a map, one in a namespace, one at the root.
C27_Witness ==
    /\ Built
    /\ DistinctLumpNames
    /\ Cardinality(LumpIndices) = 3
    /\ \E i, j, k \in LumpIndices :
          /\ Len(CHOOSE path \in LumpPlaces(result.index, tokens[i].name) :
                     TRUE) = 0
          /\ Len(CHOOSE path \in LumpPlaces(result.index, tokens[j].name) :
                     TRUE) = 1
          /\ Len(CHOOSE path \in LumpPlaces(result.index, tokens[k].name) :
                     TRUE) = 2

-----------------------------------------------------------------------------
(* C28: every lump reference that a reader of the directory hands to the     *)
(* index lies in the buffer, start <= end <= buffer length, also when the    *)
(* offset or the length of an entry is negative as a signed 32-bit value:    *)
(* no reference with a wrapped-around or inverted range is stored.           *)

\* The references of the lump tokens of TokenIterator ...
TokenRefs ==
    { produced[i].token.ref :
        i \in { j \in 1..Len(produced) :
                  /\ "token" \in DOMAIN produced[j]
                  /\ produced[j].token.kind = "Lump" } }

\* ... and the references of DirectoryIterator.
DirectoryRefs ==
    { produced[i] :
        i \in { j \in 1..Len(produced) : "name_offset" \in DOMAIN produced[j] } }

RangeInBuffer(ref) == ref.start <= ref.end /\ ref.end <= data_len

C28_TokenRangesInBuffer == \A ref \in TokenRefs : RangeInBuffer(ref)

C28_RangesInBuffer ==
    /\ C28_TokenRangesInBuffer
    /\ \A ref \in DirectoryRefs : RangeInBuffer(ref)

-----------------------------------------------------------------------------
(* C29: a buffer whose header has a negative lump count or a negative        *)
(* directory offset never gets an index built: the sizes made of these       *)
(* fields and their sum directory_offset + lump_count * 16, cut to the       *)
(* machine word, do not pass the bounds check of the directory.              *)

NegativeHeader == header.num_lumps < 0 \/ header.info_table_offset < 0

C29_NegativeHeaderNeverBuilt == NegativeHeader => ~Built

-----------------------------------------------------------------------------
(* C30: the MAPS namespace of the root holds exactly the maps of the stream, *)
(* one namespace per map marker with the lumps of its run, whatever else the *)
(* stream holds: a namespace MAPS_START ... MAPS_END or a lump named MAPS     *)
(* neither makes the filing of MAPS fail at the end of the build, nor is     *)
(* its content found in MAPS or in place of it.                              *)

FinalInsertionFails == result = Err("AlreadyExists", MAPS, MAPS)

\* The map marker is the only one of its name.
MapNameOnce(m) ==
    \A n \in MapIndices : tokens[n].name = tokens[m].name => n = m

ExactlyTheMaps(maps) ==
    /\ DOMAIN maps.lumps = {}
    /\ DOMAIN maps.collections = { tokens[m].name : m \in MapIndices }
    /\ \A m \in MapIndices :
          MapNameOnce(m) =>
             /\ DOMAIN maps.collections[tokens[m].name].lumps =
                   { tokens[k].name : k \in Run(m) }
             /\ DOMAIN maps.collections[tokens[m].name].collections = {}

C30_MapsReserved ==
    /\ ~FinalInsertionFails
    /\ Built =>
          LET maps == get_collection(result.index, MAPS)
          IN  maps # None /\ ExactlyTheMaps(maps[1])

====
